---- MODULE Spec2Model ----
(***************************************************************************)
(* Model of cpg_ratio (src/src/main.rs): the two window iterators          *)
(* CGCounter and CpGCounter, the scoring helpers count_base and            *)
(* count_bigram, BdgRecord::writeln and the driver loop of main.           *)
(*                                                                         *)
(* A score is the f64 quotient of two small unsigned integers; it is kept  *)
(* as the pair [num, den].  den = 0 with num = 0 is the quotient NaN.      *)
(***************************************************************************)
EXTENDS Integers, Naturals, Sequences, FiniteSets, TLC

(* ------------------------------ bounds --------------------------------- *)
\* total number of sequence bytes on standard input
MaxBytes == 4
\* number of records (well-formed or malformed) on standard input
MaxRecs == 2
\* largest --window-size tried (0 is accepted by the u64 argument parser)
MaxW == 3
\* calls to next made by the iterator harness after the first None
MaxNoneCalls == 2
\* lines the sink accepts before the model stops following a run that
\* never ends (window_size = 0); always larger than any finite run's output
MaxOut == MaxBytes + 2

\* nucleotide symbols of the input; "A" stands for every byte other than
\* 'C' and 'G', which count_base and count_bigram do not tell apart
Bases == {"A", "C", "G"}

\* The value of (0usize - 1) when overflow checks are off: usize::MAX.  It
\* stands for 2^64 - 1, written as the largest integer TLC holds.
UsizeMax == 2147483647

(* ------------------------------ input ---------------------------------- *)
\* what fasta::Records::next yields for one entry of the stream: Ok(record)
\* with a byte sequence of k bytes, or Err for a malformed entry
OkResults(k) == {[ok |-> TRUE, seq |-> s] : s \in [1..k -> Bases]}
ErrResult == [ok |-> FALSE, seq |-> <<>>]

\* the streams of at most n entries holding at most budget bytes in all
RECURSIVE StreamsOf(_, _)
StreamsOf(n, budget) ==
    IF n = 0 THEN {<<>>}
    ELSE {<<>>}
         \cup {<<ErrResult>> \o rest : rest \in StreamsOf(n - 1, budget)}
         \cup UNION {LET rests == StreamsOf(n - 1, budget - k)
                     IN {<<r>> \o rest : r \in OkResults(k), rest \in rests} :
                     k \in 0..budget}

\* the identifier of the i-th entry is its position in the stream
WithIds(stream) ==
    [i \in 1..Len(stream) |-> [ok |-> stream[i].ok, id |-> i, seq |-> stream[i].seq]]

Inputs == {WithIds(s) : s \in StreamsOf(MaxRecs, MaxBytes)}

NoRecord == [ok |-> FALSE, id |-> 0, seq |-> <<>>]

(* ------------------------------ state ---------------------------------- *)
VARIABLES
    command,          \* Commands: "cg" or "cpg"
    window_size,      \* CgArgs.window_size / CpGArgs.window_size
    overflow_checks,  \* build profile: TRUE panics on usize underflow, FALSE wraps
    input,            \* the parse results the fasta reader will yield, in order
    next_rec,         \* position of the records iterator in input
    record,           \* counter.record
    current_idx,      \* counter.current_idx
    pc,               \* "read": at records.next(); "drain": at counter.next(); "exit"
    output,           \* lines accepted by the output writer, in order
    exit_code,        \* process exit status once pc = "exit", -1 before
    cause,            \* why the run ended: "eof", "parse_error", "write_error", "overflow_panic"
    last,             \* result tag of the latest call to next: "", "Some", "None", "Panic"
    none_calls        \* harness only: calls to next that returned None

vars == <<command, window_size, overflow_checks, input, next_rec, record,
          current_idx, pc, output, exit_code, cause, last, none_calls>>

(* ------------------------------ scoring -------------------------------- *)
\* count_bigram comparing only the first byte of each pair
count_bigram_first_byte(seq, bigram) ==
    Cardinality({i \in 1..(Len(seq) - 1) : seq[i] = bigram[1]})

\* seq.windows(2).filter(|w| w == bigram).count()
count_bigram(seq, bigram) ==
    Cardinality({i \in 1..(Len(seq) - 1) : <<seq[i], seq[i + 1]>> = bigram})

\* seq.iter().filter(|b| bases.contains(b)).count()
count_base(seq, bases) ==
    Cardinality({i \in 1..Len(seq) : \E j \in 1..Len(bases) : bases[j] = seq[i]})

\* BdgRecord::new
BdgRecord(seqname, start, end, score) ==
    [seqname |-> seqname, start |-> start, end |-> end, score |-> score]

NoItem == BdgRecord(0, 0, 0, [num |-> 0, den |-> 0])

\* &self.record.seq()[start..end]
Slice(seq, start, end) == SubSeq(seq, start + 1, end)

\* CGCounter::next that rewinds the cursor when it reports exhaustion
CGCounterNext_restart(rec, w, cur) ==
    IF cur + w > Len(rec.seq)
    THEN [tag |-> "None", item |-> NoItem, current_idx |-> 0]
    ELSE LET seq == Slice(rec.seq, cur, cur + w)
             score == [num |-> count_base(seq, <<"C", "G">>), den |-> Len(seq)]
         IN [tag |-> "Some",
             item |-> BdgRecord(rec.id, cur, cur + w, score),
             current_idx |-> cur + w]

\* CGCounter::next that stops at cur >= len and clips the last window
CGCounterNext_clipping(rec, w, cur) ==
    IF cur >= Len(rec.seq)
    THEN [tag |-> "None", item |-> NoItem, current_idx |-> cur]
    ELSE LET end == IF cur + w < Len(rec.seq) THEN cur + w ELSE Len(rec.seq)
             seq == Slice(rec.seq, cur, end)
             score == [num |-> count_base(seq, <<"C", "G">>), den |-> Len(seq)]
         IN [tag |-> "Some",
             item |-> BdgRecord(rec.id, cur, end, score),
             current_idx |-> cur + w]

\* CGCounter::next: the returned option and the cursor after the call
CGCounterNext(rec, w, cur) ==
    IF cur + w > Len(rec.seq)
    THEN [tag |-> "None", item |-> NoItem, current_idx |-> cur]
    ELSE LET start == cur
             end == cur + w
             seq == Slice(rec.seq, start, end)
             cg_count == count_base(seq, <<"C", "G">>)
             total_base_count == Len(seq)
             score == [num |-> cg_count, den |-> total_base_count]
         IN [tag |-> "Some",
             item |-> BdgRecord(rec.id, start, end, score),
             current_idx |-> cur + w]

\* CpGCounter::next; seq.len() - 1 underflows on an empty slice: a panic
\* with overflow checks, usize::MAX without
CpGCounterNext(rec, w, cur, checks) ==
    IF cur + w > Len(rec.seq)
    THEN [tag |-> "None", item |-> NoItem, current_idx |-> cur]
    ELSE LET start == cur
             end == cur + w
             seq == Slice(rec.seq, start, end)
             cpg_count == count_bigram(seq, <<"C", "G">>)
             total_bigram_count == IF Len(seq) = 0 THEN UsizeMax ELSE Len(seq) - 1
             score == [num |-> cpg_count, den |-> total_bigram_count]
         IN IF Len(seq) = 0 /\ checks
            THEN [tag |-> "Panic", item |-> NoItem, current_idx |-> cur]
            ELSE [tag |-> "Some",
                  item |-> BdgRecord(rec.id, start, end, score),
                  current_idx |-> cur + w]

\* the match on app.command in main: which counter is built and drained
CounterNext ==
    IF command = "cg"
    THEN CGCounterNext(record, window_size, current_idx)
    ELSE CpGCounterNext(record, window_size, current_idx, overflow_checks)

\* BdgRecord::writeln: the tab-separated fields of one line, in order
Line(rec) == <<rec.seqname, rec.start, rec.end, rec.score>>

(* ------------------------------ driver --------------------------------- *)
\* App::parse and the locals of main before the loop
Init ==
    /\ command \in {"cg", "cpg"}
    /\ window_size \in 0..MaxW
    /\ overflow_checks \in BOOLEAN
    /\ input \in Inputs
    /\ next_rec = 1
    /\ record = NoRecord
    /\ current_idx = 0
    /\ pc = "read"
    /\ output = <<>>
    /\ exit_code = -1
    /\ cause = ""
    /\ last = ""
    /\ none_calls = 0

\* records.next() = Some(Ok(record)): a counter is built with current_idx 0
ReadRecord ==
    /\ pc = "read"
    /\ next_rec <= Len(input)
    /\ input[next_rec].ok
    /\ record' = input[next_rec]
    /\ current_idx' = 0
    /\ next_rec' = next_rec + 1
    /\ pc' = "drain"
    /\ last' = ""
    /\ UNCHANGED <<command, window_size, overflow_checks, input, output,
                   exit_code, cause, none_calls>>

\* a driver that skips a malformed entry and goes on with the next one
ReadErr_skip ==
    /\ pc = "read"
    /\ next_rec <= Len(input)
    /\ ~input[next_rec].ok
    /\ next_rec' = next_rec + 1
    /\ UNCHANGED <<command, window_size, overflow_checks, input, record,
                   current_idx, pc, output, exit_code, cause, last, none_calls>>

\* records.next() = Some(Err(_)): the while-let pattern fails, main returns
ReadErr ==
    /\ pc = "read"
    /\ next_rec <= Len(input)
    /\ ~input[next_rec].ok
    /\ pc' = "exit"
    /\ exit_code' = 0
    /\ cause' = "parse_error"
    /\ UNCHANGED <<command, window_size, overflow_checks, input, next_rec,
                   record, current_idx, output, last, none_calls>>

\* records.next() = None: main returns
ReadEof ==
    /\ pc = "read"
    /\ next_rec > Len(input)
    /\ pc' = "exit"
    /\ exit_code' = 0
    /\ cause' = "eof"
    /\ UNCHANGED <<command, window_size, overflow_checks, input, next_rec,
                   record, current_idx, output, last, none_calls>>

\* counter.next() = Some(record) and record.writeln(&mut output) is Ok
DrainWrite ==
    /\ pc = "drain"
    /\ CounterNext.tag = "Some"
    /\ Len(output) < MaxOut
    /\ current_idx' = CounterNext.current_idx
    /\ output' = Append(output, Line(CounterNext.item))
    /\ last' = "Some"
    /\ UNCHANGED <<command, window_size, overflow_checks, input, next_rec,
                   record, pc, exit_code, cause, none_calls>>

\* counter.next() = Some(record) and writeln is Err: unwrap panics
DrainWriteFail ==
    /\ pc = "drain"
    /\ CounterNext.tag = "Some"
    /\ current_idx' = CounterNext.current_idx
    /\ last' = "Some"
    /\ pc' = "exit"
    /\ exit_code' = 101
    /\ cause' = "write_error"
    /\ UNCHANGED <<command, window_size, overflow_checks, input, next_rec,
                   record, output, none_calls>>

\* counter.next() = None: the inner loop ends, back to records.next()
DrainNone ==
    /\ pc = "drain"
    /\ CounterNext.tag = "None"
    /\ current_idx' = CounterNext.current_idx
    /\ last' = "None"
    /\ pc' = "read"
    /\ UNCHANGED <<command, window_size, overflow_checks, input, next_rec,
                   record, output, exit_code, cause, none_calls>>

\* counter.next() panics on the usize underflow
DrainPanic ==
    /\ pc = "drain"
    /\ CounterNext.tag = "Panic"
    /\ current_idx' = CounterNext.current_idx
    /\ last' = "Panic"
    /\ pc' = "exit"
    /\ exit_code' = 101
    /\ cause' = "overflow_panic"
    /\ UNCHANGED <<command, window_size, overflow_checks, input, next_rec,
                   record, output, none_calls>>

Next ==
    \/ ReadRecord
    \/ ReadErr
    \/ ReadEof
    \/ DrainWrite
    \/ DrainWriteFail
    \/ DrainNone
    \/ DrainPanic

Spec == Init /\ [][Next]_vars

(* --------------------------- iterator harness --------------------------- *)
\* One counter built over one record, as main builds it, and next called on
\* it again and again, also after it has returned None.
IterInit ==
    /\ command \in {"cg", "cpg"}
    /\ window_size \in 0..MaxW
    /\ overflow_checks \in BOOLEAN
    /\ input \in {WithIds(<<r>>) : r \in UNION {OkResults(k) : k \in 0..MaxBytes}}
    /\ next_rec = 2
    /\ record = input[1]
    /\ current_idx = 0
    /\ pc = "drain"
    /\ output = <<>>
    /\ exit_code = -1
    /\ cause = ""
    /\ last = ""
    /\ none_calls = 0

\* next() = Some(item): the harness keeps the item as a line
IterCallSome ==
    /\ pc = "drain"
    /\ CounterNext.tag = "Some"
    /\ Len(output) < MaxOut
    /\ current_idx' = CounterNext.current_idx
    /\ output' = Append(output, Line(CounterNext.item))
    /\ last' = "Some"
    /\ UNCHANGED <<command, window_size, overflow_checks, input, next_rec,
                   record, pc, exit_code, cause, none_calls>>

\* next() = None
IterCallNone ==
    /\ pc = "drain"
    /\ CounterNext.tag = "None"
    /\ none_calls < MaxNoneCalls
    /\ current_idx' = CounterNext.current_idx
    /\ last' = "None"
    /\ none_calls' = none_calls + 1
    /\ UNCHANGED <<command, window_size, overflow_checks, input, next_rec,
                   record, pc, output, exit_code, cause>>

\* next() panics on the usize underflow
IterCallPanic ==
    /\ pc = "drain"
    /\ CounterNext.tag = "Panic"
    /\ current_idx' = CounterNext.current_idx
    /\ last' = "Panic"
    /\ pc' = "exit"
    /\ exit_code' = 101
    /\ cause' = "overflow_panic"
    /\ UNCHANGED <<command, window_size, overflow_checks, input, next_rec,
                   record, output, none_calls>>

IterNext ==
    \/ IterCallSome
    \/ IterCallNone
    \/ IterCallPanic

\* the caller keeps calling next: the while-let loop has no other exit
FairIterSpec == IterInit /\ [][IterNext]_vars /\ WF_vars(IterNext)

(* ------------------------- reference definitions ------------------------ *)
Min(a, b) == IF a < b THEN a ELSE b
CeilDiv(a, b) == (a + b - 1) \div b

\* the lines of output that carry identifier i, in output order
LinesOf(i) == SelectSeq(output, LAMBDA l : l[1] = i)

\* bytes of s equal to 'C' or 'G', counted left to right
RECURSIVE RefCG(_)
RefCG(s) ==
    IF s = <<>> THEN 0
    ELSE (IF Head(s) \in {"C", "G"} THEN 1 ELSE 0) + RefCG(Tail(s))

\* positions of s holding 'C' immediately followed by 'G', left to right
RECURSIVE RefCpG(_)
RefCpG(s) ==
    IF Len(s) < 2 THEN 0
    ELSE (IF s[1] = "C" /\ s[2] = "G" THEN 1 ELSE 0) + RefCpG(Tail(s))

\* the bytes of entry i at the 0-based half-open range [start, end)
Bytes(i, start, end) == SubSeq(input[i].seq, start + 1, end)

\* record i has been read and its counter drained to None
Drained(i) ==
    /\ i < next_rec
    /\ input[i].ok
    /\ \/ i < next_rec - 1
       \/ pc = "read"
       \/ cause \in {"eof", "parse_error"}

\* position of the first malformed entry, Len(input) + 1 when there is none
FirstBad ==
    IF \E i \in 1..Len(input) : ~input[i].ok
    THEN CHOOSE i \in 1..Len(input) :
            ~input[i].ok /\ \A j \in 1..(i - 1) : input[j].ok
    ELSE Len(input) + 1

\* the lines of the full windows of entry i, for window_size > 0
FullWindowLines(i) ==
    [k \in 1..(Len(input[i].seq) \div window_size) |->
        LET start == (k - 1) * window_size
            end == k * window_size
            bytes == Bytes(i, start, end)
        IN <<i, start, end,
             IF command = "cg"
             THEN [num |-> RefCG(bytes), den |-> window_size]
             ELSE [num |-> RefCpG(bytes), den |-> window_size - 1]>>]

RECURSIVE LinesUpTo(_)
LinesUpTo(n) == IF n = 0 THEN <<>> ELSE LinesUpTo(n - 1) \o FullWindowLines(n)

(* -------------------------------- claims -------------------------------- *)

\* C1: for window_size W > 0, a drained sequence of length L has produced
\* exactly ceil(L / W) windows, the k-th one starting at (k-1)*W and ending
\* at min(start + W, L), so that the windows tile [0, L).
C1_CeilWindows ==
    \A i \in 1..Len(input) :
        (window_size > 0 /\ Drained(i)) =>
            LET L == Len(input[i].seq)
                ws == LinesOf(i)
            IN /\ Len(ws) = CeilDiv(L, window_size)
               /\ \A k \in 1..Len(ws) :
                     /\ ws[k][2] = (k - 1) * window_size
                     /\ ws[k][3] = Min(ws[k][2] + window_size, L)

\* C2: with window_size = 0 the run ends before any record is read and
\* before any line is written, and no score is a division by zero.
C2_ZeroWindowRejected ==
    window_size = 0 =>
        /\ next_rec = 1
        /\ output = <<>>
        /\ pc # "drain"

\* C3: the exit status is non-zero when the parser failed on a record or a
\* write failed, and zero when every record was parsed and drained.
C3_ExitStatus ==
    pc = "exit" =>
        /\ cause \in {"parse_error", "write_error"} => exit_code # 0
        /\ cause = "eof" => exit_code = 0

\* C4: the records iterator never moves past the first malformed entry, no
\* line of that entry or of a later one is ever written, and when the run
\* has ended on the malformed entry i the output is exactly the lines of
\* entries 1..i-1 in order.
C4_StopAtParseError ==
    /\ next_rec <= FirstBad + (IF FirstBad > Len(input) THEN 1 ELSE 0)
    /\ \A p \in 1..Len(output) : output[p][1] < FirstBad
    /\ cause = "parse_error" =>
          /\ next_rec = FirstBad
          /\ output = IF FirstBad = 1 THEN <<>> ELSE LinesUpTo(FirstBad - 1)

\* a run ended on a malformed entry that follows a record with output
C4_Witness ==
    /\ cause = "parse_error"
    /\ output # <<>>
    /\ FirstBad = 2

\* C5: under cg every line's score is (bytes of [start, end) equal to 'C'
\* or 'G') over (end - start), with denominator > 0 and the score in [0, 1].
C5_CGScore ==
    command = "cg" =>
        \A p \in 1..Len(output) :
            LET l == output[p]
                bytes == Bytes(l[1], l[2], l[3])
            IN /\ l[4].num = RefCG(bytes)
               /\ l[4].den = l[3] - l[2]
               /\ l[4].den > 0
               /\ 0 <= l[4].num /\ l[4].num <= l[4].den

\* C6: under cpg every line of a window of length N >= 2 has as score the
\* number of positions i with byte[i] = 'C' and byte[i+1] = 'G', both inside
\* [start, end), over N - 1, and the score is in [0, 1]; a pair lying
\* across the end of a window is counted in no window.
C6_CpGScore ==
    command = "cpg" =>
        \A p \in 1..Len(output) :
            LET l == output[p]
                seq == input[l[1]].seq
                N == l[3] - l[2]
                inside == {i \in (l[2] + 1)..(l[3] - 1) : seq[i] = "C" /\ seq[i + 1] = "G"}
            IN N >= 2 =>
                 /\ l[4].num = Cardinality(inside)
                 /\ l[4].den = N - 1
                 /\ 0 <= l[4].num /\ l[4].num <= l[4].den

\* two adjacent cpg windows of length >= 2 with a CG pair across their
\* common boundary
C6_Witness ==
    /\ command = "cpg"
    /\ \E p \in 1..(Len(output) - 1) :
          LET l == output[p]
              m == output[p + 1]
              seq == input[l[1]].seq
          IN /\ l[1] = m[1]
             /\ l[3] - l[2] >= 2
             /\ seq[l[3]] = "C" /\ seq[l[3] + 1] = "G"

\* C7: no line carries a score whose denominator is zero or the result of
\* an unsigned underflow.
C7_NoDegenerateDenominator ==
    \A p \in 1..Len(output) :
        /\ output[p][4].den > 0
        /\ output[p][4].den # UsizeMax

\* C8: lines appear in input order of their sequences and, within one
\* sequence, in increasing start order; each line carries the identifier of
\* the record whose bytes give its score.
C8_OrderAndIdentity ==
    /\ \A p \in 1..Len(output) : \A q \in (p + 1)..Len(output) :
          \/ output[p][1] < output[q][1]
          \/ /\ output[p][1] = output[q][1]
             /\ output[p][2] < output[q][2]
    /\ \A p \in 1..Len(output) :
          LET l == output[p]
          IN /\ l[1] \in 1..(next_rec - 1)
             /\ input[l[1]].ok
             /\ l[3] <= Len(input[l[1]].seq)
             /\ l[4].num = IF command = "cg"
                           THEN RefCG(Bytes(l[1], l[2], l[3]))
                           ELSE RefCpG(Bytes(l[1], l[2], l[3]))

\* C9: for window_size > 0 the cursor starts at 0, every call that produces
\* a window advances it by exactly window_size, a call that returns None is
\* eventually made, and after a None every call returns None and leaves the
\* cursor where it is.
C9_Cursor ==
    /\ current_idx = 0
    /\ [][window_size > 0 =>
            /\ last' = "Some" => current_idx' = current_idx + window_size
            /\ last = "None" => (last' = "None" /\ current_idx' = current_idx)]_vars
    /\ (window_size > 0 => <>(last = "None"))

\* next has returned None, after at least one window, and was called again
C9_Witness ==
    /\ window_size > 0
    /\ last = "None"
    /\ none_calls >= 2
    /\ output # <<>>

\* C10: for window_size W > 0 every line has start a multiple of W,
\* end = start + W and end <= the sequence's length; a drained sequence
\* shorter than W has no line.
C10_FullWindowsOnly ==
    window_size > 0 =>
        /\ \A p \in 1..Len(output) :
              LET l == output[p]
              IN /\ l[2] % window_size = 0
                 /\ l[3] = l[2] + window_size
                 /\ l[3] <= Len(input[l[1]].seq)
        /\ \A i \in 1..Len(input) :
              (Drained(i) /\ Len(input[i].seq) < window_size) => LinesOf(i) = <<>>

\* a drained non-empty sequence shorter than the window, after a sequence
\* with a line, and a drained sequence with bytes left over after its last
\* full window
C10_Witness ==
    /\ window_size > 0
    /\ output # <<>>
    /\ \E i \in 1..Len(input) :
          Drained(i) /\ input[i].seq # <<>> /\ Len(input[i].seq) < window_size
    /\ \E i \in 1..Len(input) :
          Drained(i) /\ Len(input[i].seq) > window_size
                     /\ Len(input[i].seq) % window_size # 0

====
